---- MODULE Spec2Model ----
(***************************************************************************)
(* GnuPlotIO (src/mesh/gnuplot_io.C): export of a 1D mesh and a nodal      *)
(* solution as a gnuplot script plus a tab-separated data file.            *)
(*                                                                         *)
(* A real coordinate is modelled by an integer, a stream by the sequence   *)
(* of the items put on it (a script directive, a tick-list token, a data   *)
(* row), a file name by the sequence of its parts.  The mesh, the solution *)
(* vector and the names are inputs fixed by Init; every process of the run *)
(* executes write_solution step by step.                                   *)
(***************************************************************************)
EXTENDS Integers, Sequences, FiniteSets

\* ---------------------------------------------------------------- bounds
MaxCoord == 4      \* node coordinates are drawn from 1..MaxCoord
MaxElems == 3      \* at most this many active elements
MaxVars  == 2      \* at most this many variable names
NProcs   == 2      \* processes 0..NProcs-1 take part in the call

Coords   == 1..MaxCoord
Procs    == 0..(NProcs - 1)
VarNames == <<"u", "v", "w", "p", "q">>

\* A null Elem* / vector* (gnuplot_io.C:126, 131, 84).
NULL == 0

VARIABLES
  mesh,        \* the_mesh: [dim, elems, point, order]
  call,        \* which entry point the processes call: "write" or "write_nodal_data"
  soln,        \* the caller's solution vector (0-based function)
  names,       \* the caller's variable names
  _grid,       \* GnuPlotIO::_grid
  _png_output, \* GnuPlotIO::_png_output
  pc,          \* pc[p]: where process p stands in write_solution
  err,         \* err[p]: the error process p terminated with, or "none"
  loc,         \* loc[p]: the locals of write_solution on process p
  fs,          \* the file system: file name -> [state, lines]
  io_log       \* every file operation attempted: <<process, file, operation>>

vars == <<mesh, call, soln, names, _grid, _png_output, pc, err, loc, fs, io_log>>

\* ------------------------------------------------------------- helpers
Min(S) == CHOOSE x \in S : \A y \in S : x <= y
Max(S) == CHOOSE x \in S : \A y \in S : x >= y

\* In-order iteration of a std::map's keys: ascending (gnuplot_io.C:211-214).
RECURSIVE MapKeysInOrder(_)
MapKeysInOrder(S) ==
  IF S = {} THEN <<>> ELSE <<Min(S)>> \o MapKeysInOrder(S \ {Min(S)})

Range(s) == {s[i] : i \in DOMAIN s}

Perms(n) == {f \in [1..n -> 1..n] : \A i, j \in 1..n : i # j => f[i] # f[j]}

\* The global node numberings tried: a mesh may store its nodes in any index
\* order.  j is the rank of the node by coordinate (1-based), the result its id.
Numberings(n) ==
  { [j \in 1..n |-> j - 1], [j \in 1..n |-> n - j], [j \in 1..n |-> j % n] }

\* ---------------------------------------------------------------- mesh
\* The rank (by coordinate) of local node i of the e-th element from the left,
\* npe nodes per element: node 0 is the left end, node 1 the right end and
\* node 2 (EDGE3) the midpoint.
LocalPos(e, i, npe) ==
  LET left == (e - 1) * (npe - 1) + 1
  IN  IF i = 0 THEN left
      ELSE IF i = 1 THEN left + (npe - 1)
      ELSE left + 1

\* A 1D mesh over the node coordinates S.  stitched: neighbouring elements
\* share their end node and know each other; otherwise every element owns its
\* nodes (coincident nodes with distinct ids) and has no neighbour.  One more
\* node, attached to no element, sits at coordinate 0.
BuildMesh(S, npe, numbering, stitched, order, dim) ==
  LET P    == MapKeysInOrder(S)
      k    == (Len(P) - 1) \div (npe - 1)
      id(e, i) == IF stitched THEN numbering[LocalPos(e, i, npe)]
                  ELSE (e - 1) * npe + i
      nn   == IF stitched THEN Len(P) ELSE k * npe
      posOf(g) == IF stitched
                  THEN CHOOSE j \in 1..Len(P) : numbering[j] = g
                  ELSE LocalPos((g \div npe) + 1, g % npe, npe)
  IN  [ dim   |-> dim,
        elems |-> [e \in 1..k |->
                    [ node     |-> [i \in 1..npe |-> id(e, i - 1)],
                      neighbor |-> << IF stitched /\ e > 1 THEN e - 1 ELSE NULL,
                                      IF stitched /\ e < k THEN e + 1 ELSE NULL >> ]],
        point |-> [g \in 0..nn |-> IF g = nn THEN 0 ELSE P[posOf(g)]],
        order |-> order ]

n_active_elem(m) == Len(m.elems)
max_node_id(m)   == Max(DOMAIN m.point)

\* The names vectors a caller may pass: at most MaxVars names, in the order
\* of VarNames or against it.
NameSeqs ==
  { [i \in 1..n |-> IF up THEN VarNames[i] ELSE VarNames[n + 1 - i]] :
      n \in 0..MaxVars, up \in BOOLEAN }

\* The solution vector of length len: value[global_node_id * num_variables + c].
\* The export only copies the values, so one vector of pairwise distinct
\* values, none of them a coordinate, stands for all.
SolnVector(len) == [i \in 0..(len - 1) |-> 100 + i]

\* ---------------------------------------------------------- file names
fname == <<"out">>
DataFileName(f) == f \o <<"_data">>          \* gnuplot_io.C:76-78
PngFileName(f)  == f \o <<".png">>           \* gnuplot_io.C:152
Files == {fname, DataFileName(fname)}

_title == "title"

\* ------------------------------------------------------- initial state
InitLocals ==
  [ n_active_elem |-> 0, soln_null |-> TRUE, names_null |-> TRUE,
    n_vars |-> 0, x_min |-> 0, x_max |-> 0, xtics_stream |-> <<>>,
    count |-> 0, it |-> 1, node_map |-> <<>>, map_it |-> 1 ]

\* GnuPlotIO::GnuPlotIO: the two display options are bits of mesh_properties.
Init ==
  /\ \E S \in {T \in SUBSET Coords : Cardinality(T) >= 2},
        npe \in {2, 3}, st \in BOOLEAN, dim \in {1, 2} :
       LET n == Cardinality(S)
           k == (n - 1) \div (npe - 1)
       IN  /\ (n - 1) % (npe - 1) = 0
           /\ k \in 1..MaxElems
           /\ \E nb \in (IF st THEN Numberings(n) ELSE {[j \in 1..n |-> j - 1]}),
                 ord \in Perms(k) :
                mesh = BuildMesh(S, npe, nb, st, ord, dim)
  /\ call \in {"write", "write_nodal_data"}
  /\ names \in (IF call = "write" THEN {<<>>} ELSE NameSeqs)
  /\ soln = (IF call = "write" THEN <<>>
             ELSE SolnVector((max_node_id(mesh) + 1) * Len(names)))
  /\ _grid \in BOOLEAN
  /\ _png_output \in BOOLEAN
  /\ pc = [p \in Procs |-> "idle"]
  /\ err = [p \in Procs |-> "none"]
  /\ loc = [p \in Procs |-> InitLocals]
  /\ fs = [f \in Files |-> [state |-> "absent", lines |-> <<>>]]
  /\ io_log = {}

\* ------------------------------------------------------------- actions
\* Faulty variant: every process takes itself for the one that writes.
IsCoordinator_Any(p) == TRUE

\* processor_id() == 0 selects the process that writes (gnuplot_io.C:74).
IsCoordinator(p) == p = 0

\* GnuPlotIO::write / write_nodal_data entering write_solution, up to the
\* processor test: write passes no solution and no names (null pointers),
\* write_nodal_data the addresses of its arguments.
Call(p) ==
  /\ pc[p] = "idle"
  /\ loc' = [loc EXCEPT ![p] = [@ EXCEPT !.n_active_elem = n_active_elem(mesh),
                                         !.soln_null  = (call = "write"),
                                         !.names_null = (call = "write")]]
  /\ pc' = [pc EXCEPT ![p] = IF IsCoordinator(p) THEN "assert" ELSE "done"]
  /\ UNCHANGED <<mesh, call, soln, names, _grid, _png_output, err, fs, io_log>>

\* libmesh_assert / libmesh_assert_equal_to: a condition that does not hold
\* terminates the call with a precondition failure.
FailedAssert(cond) == ~cond

\* Faulty variant: only the dimension is checked, a missing solution is not.
PreconditionError_DimOnly(dim, names_null, soln_null) ==
  IF FailedAssert(dim = 1) THEN "assert_dim" ELSE "none"

\* The two preconditions, in the order the code states them
\* (gnuplot_io.C:80-84): the error raised, or "none".
PreconditionError(dim, names_null, soln_null) ==
  IF FailedAssert(dim = 1) THEN "assert_dim"
  ELSE IF FailedAssert(~names_null /\ ~soln_null) THEN "assert_soln"
  ELSE "none"

CheckPreconditions(p) ==
  /\ pc[p] = "assert"
  /\ LET e == PreconditionError(mesh.dim, loc[p].names_null, loc[p].soln_null)
     IN  /\ err' = [err EXCEPT ![p] = e]
         /\ pc' = [pc EXCEPT ![p] = IF e = "none" THEN "open_script" ELSE "failed"]
  /\ UNCHANGED <<mesh, call, soln, names, _grid, _png_output, loc, fs, io_log>>

\* std::ofstream f(name): an existing file is truncated; the open may fail.
OpenFile(files, f, good) ==
  IF good THEN [files EXCEPT ![f] = [state |-> "open", lines |-> <<>>]] ELSE files

\* operator<< on an open stream.
Put(files, f, items) ==
  [files EXCEPT ![f].lines = @ \o items]

CloseFile(files, f) == [files EXCEPT ![f].state = "closed"]

\* Where the call goes after opening the script file (gnuplot_io.C:87-91):
\* libmesh_file_error ends it.
AfterScriptOpen(good) == IF good THEN "header" ELSE "failed"

OpenScript(p) ==
  /\ pc[p] = "open_script"
  /\ \E good \in BOOLEAN :
       /\ fs' = OpenFile(fs, fname, good)
       /\ pc' = [pc EXCEPT ![p] = AfterScriptOpen(good)]
       /\ err' = [err EXCEPT ![p] = IF good THEN "none" ELSE "file_error"]
  /\ io_log' = io_log \cup {<<p, fname, "open">>}
  /\ UNCHANGED <<mesh, call, soln, names, _grid, _png_output, loc>>

\* One script directive: its keyword and its arguments.
Directive(d, a) == [d |-> d, a |-> a]

\* gnuplot_io.C:93-119: n_vars, the header, and the locals of pass 1.
WriteHeader(p) ==
  /\ pc[p] = "header"
  /\ fs' = Put(fs, fname,
               << Directive("#", <<fname>>), Directive("reset", <<>>),
                  Directive("set title", <<_title>>),
                  Directive("set xlabel", <<"x">>),
                  Directive("set xtics", <<"nomirror">>) >>)
  /\ loc' = [loc EXCEPT ![p] = [@ EXCEPT !.n_vars = Len(names),
                                         !.x_min = 0, !.x_max = 0,
                                         !.xtics_stream = <<>>,
                                         !.it = 1, !.count = 0]]
  /\ pc' = [pc EXCEPT ![p] = "pass1"]
  /\ io_log' = io_log \cup {<<p, fname, "write">>}
  /\ UNCHANGED <<mesh, call, soln, names, _grid, _png_output, err>>

\* The tokens of xtics_stream: an empty-label tick "\"\" x" and the
\* comma-continuation separator ", \\\n".
Tick(x) == [t |-> "tick", x |-> x]
Sep     == [t |-> "sep", x |-> 0]

\* Faulty variant: the first element visited is taken for the leftmost one.
Pass1Body_FirstIsLeft(l, el, point) ==
  LET left  == point[el.node[1]]
      right == point[el.node[2]]
      s1 == IF l.count = 0
            THEN l.xtics_stream \o <<Tick(left), Sep>>
            ELSE l.xtics_stream
      s2 == s1 \o <<Tick(right)>>
      s3 == IF l.count + 1 # l.n_active_elem THEN s2 \o <<Sep>> ELSE s2
  IN  [l EXCEPT !.x_min = IF l.count = 0 THEN left ELSE @,
                !.x_max = IF el.neighbor[2] = NULL THEN right ELSE @,
                !.xtics_stream = s3,
                !.count = @ + 1,
                !.it = @ + 1]

\* Faulty variant: the separator test compares count, not count + 1, with the
\* number of elements, so that a separator follows the last entry too.
Pass1Body_TrailingSep(l, el, point) ==
  LET left  == point[el.node[1]]
      right == point[el.node[2]]
      s1 == IF el.neighbor[1] = NULL
            THEN l.xtics_stream \o <<Tick(left), Sep>>
            ELSE l.xtics_stream
      s2 == s1 \o <<Tick(right)>>
      s3 == IF l.count # l.n_active_elem THEN s2 \o <<Sep>> ELSE s2
  IN  [l EXCEPT !.x_min = IF el.neighbor[1] = NULL THEN left ELSE @,
                !.x_max = IF el.neighbor[2] = NULL THEN right ELSE @,
                !.xtics_stream = s3,
                !.count = @ + 1,
                !.it = @ + 1]

\* The body of the first loop over the active elements (gnuplot_io.C:121-142).
Pass1Body(l, el, point) ==
  LET left  == point[el.node[1]]
      right == point[el.node[2]]
      s1 == IF el.neighbor[1] = NULL
            THEN l.xtics_stream \o <<Tick(left), Sep>>
            ELSE l.xtics_stream
      s2 == s1 \o <<Tick(right)>>
      s3 == IF l.count + 1 # l.n_active_elem THEN s2 \o <<Sep>> ELSE s2
  IN  [l EXCEPT !.x_min = IF el.neighbor[1] = NULL THEN left ELSE @,
                !.x_max = IF el.neighbor[2] = NULL THEN right ELSE @,
                !.xtics_stream = s3,
                !.count = @ + 1,
                !.it = @ + 1]

\* The element the iterator `it` stands on.
Deref(it) == mesh.elems[mesh.order[it]]
AtEnd(it) == it > Len(mesh.order)

Pass1Step(p) ==
  /\ pc[p] = "pass1"
  /\ ~AtEnd(loc[p].it)
  /\ loc' = [loc EXCEPT ![p] = Pass1Body(@, Deref(@.it), mesh.point)]
  /\ UNCHANGED <<mesh, call, soln, names, _grid, _png_output, pc, err, fs, io_log>>

\* gnuplot_io.C:144-153: the x-range, then the grid and the PNG directives.
RangeDirectives(l, grid, png) ==
  << Directive("set xrange", <<l.x_min, l.x_max>>) >>
  \o (IF grid THEN << Directive("set x2tics", l.xtics_stream),
                      Directive("set grid", <<"noxtics", "noytics", "x2tics">>) >>
      ELSE <<>>)
  \o (IF png THEN << Directive("set terminal", <<"png">>),
                     Directive("set output", <<PngFileName(fname)>>) >>
      ELSE <<>>)

WriteRange(p) ==
  /\ pc[p] = "pass1"
  /\ AtEnd(loc[p].it)
  /\ fs' = Put(fs, fname, RangeDirectives(loc[p], _grid, _png_output))
  /\ pc' = [pc EXCEPT ![p] = "plot"]
  /\ io_log' = io_log \cup {<<p, fname, "write">>}
  /\ UNCHANGED <<mesh, call, soln, names, _grid, _png_output, err, loc>>

\* One trace of the plot command: "<file>" using 1:<col> title "<title>" with lines.
Trace(file, col, title) == [file |-> file, col |-> col, title |-> title]

\* Faulty variant: the traces of the loop use column i + 1.
PlotTraces_ColumnOff(nms, data_file_name) ==
  << Trace(data_file_name, 2, nms[1]) >>
  \o [i \in 1..(Len(nms) - 1) |-> Trace(data_file_name, i + 1, nms[i + 1])]

\* gnuplot_io.C:155-166 for a non-empty names: the first trace, then the
\* loop over i = 1 .. n_vars-1 (names is 1-based here, i 0-based as in the code).
PlotTraces(nms, data_file_name) ==
  << Trace(data_file_name, 2, nms[1]) >>
  \o [i \in 1..(Len(nms) - 1) |-> Trace(data_file_name, i + 2, nms[i + 1])]

\* (*names)[0] of an empty vector reads out of bounds: the process crashes, or
\* it reads some string and goes on (the loop does not run, n_vars being 0).
WritePlot(p) ==
  /\ pc[p] = "plot"
  /\ \/ /\ loc[p].n_vars > 0
        /\ fs' = Put(fs, fname,
                     << Directive("plot", PlotTraces(names, DataFileName(fname))) >>)
        /\ pc' = [pc EXCEPT ![p] = "close_script"]
        /\ io_log' = io_log \cup {<<p, fname, "write">>}
     \/ /\ loc[p].n_vars = 0
        /\ \/ /\ pc' = [pc EXCEPT ![p] = "crashed"]
              /\ UNCHANGED <<fs, io_log>>
           \/ /\ fs' = Put(fs, fname,
                           << Directive("plot",
                                << Trace(DataFileName(fname), 2, "?") >>) >>)
              /\ pc' = [pc EXCEPT ![p] = "close_script"]
              /\ io_log' = io_log \cup {<<p, fname, "write">>}
  /\ UNCHANGED <<mesh, call, soln, names, _grid, _png_output, err, loc>>

\* out_stream.close() (gnuplot_io.C:168).
CloseScript(p) ==
  /\ pc[p] = "close_script"
  /\ fs' = CloseFile(fs, fname)
  /\ pc' = [pc EXCEPT ![p] = "open_data"]
  /\ io_log' = io_log \cup {<<p, fname, "close">>}
  /\ UNCHANGED <<mesh, call, soln, names, _grid, _png_output, err, loc>>

\* Faulty variant: a data file that did not open does not end the call.
AfterDataOpen_Continue(good) == "pass2"

\* Where the call goes after opening the data file (gnuplot_io.C:172-178):
\* libmesh_error ends it.
AfterDataOpen(good) == IF good THEN "pass2" ELSE "failed"

\* gnuplot_io.C:171-188: the data stream, the empty node_map, it = begin.
OpenData(p) ==
  /\ pc[p] = "open_data"
  /\ \E good \in BOOLEAN :
       /\ fs' = OpenFile(fs, DataFileName(fname), good)
       /\ pc' = [pc EXCEPT ![p] = AfterDataOpen(good)]
       /\ err' = [err EXCEPT ![p] = IF good THEN "none" ELSE "error"]
  /\ loc' = [loc EXCEPT ![p] = [@ EXCEPT !.node_map = <<>>, !.it = 1]]
  /\ io_log' = io_log \cup {<<p, DataFileName(fname), "open">>}
  /\ UNCHANGED <<mesh, call, soln, names, _grid, _png_output>>

\* Faulty variant: the node id is not scaled by the number of variables.
NodeValues_NoStride(s, global_id, n_vars) ==
  [c \in 1..n_vars |-> s[global_id + (c - 1)]]

\* The values of node global_id (gnuplot_io.C:196-204); c is 1-based here.
NodeValues(s, global_id, n_vars) ==
  [c \in 1..n_vars |-> s[global_id * n_vars + (c - 1)]]

\* node_map[key] = values (gnuplot_io.C:206): insert or overwrite.
MapInsert(nm, key, values) ==
  [x \in (DOMAIN nm) \cup {key} |-> IF x = key THEN values ELSE nm[x]]

\* The loop over the local nodes i .. n_nodes-1 of elem (gnuplot_io.C:194-207).
RECURSIVE InsertNodes(_, _, _, _, _, _)
InsertNodes(nm, elem, i, s, n_vars, point) ==
  IF i >= Len(elem.node) THEN nm
  ELSE LET global_id == elem.node[i + 1]
       IN  InsertNodes(MapInsert(nm, point[global_id],
                                 NodeValues(s, global_id, n_vars)),
                       elem, i + 1, s, n_vars, point)

\* Faulty variant: the loop over the local nodes starts at node 1.
Pass2Body_SkipFirstNode(l, elem, s, point) ==
  [l EXCEPT !.node_map = InsertNodes(@, elem, 1, s, l.n_vars, point),
            !.it = @ + 1]

\* The body of the second loop over the active elements (gnuplot_io.C:190-208).
Pass2Body(l, elem, s, point) ==
  [l EXCEPT !.node_map = InsertNodes(@, elem, 0, s, l.n_vars, point),
            !.it = @ + 1]

Pass2Step(p) ==
  /\ pc[p] = "pass2"
  /\ ~AtEnd(loc[p].it)
  /\ loc' = [loc EXCEPT ![p] = Pass2Body(@, Deref(@.it), soln, mesh.point)]
  /\ UNCHANGED <<mesh, call, soln, names, _grid, _png_output, pc, err, fs, io_log>>

\* map_it = node_map.begin() (gnuplot_io.C:211).
BeginEmit(p) ==
  /\ pc[p] = "pass2"
  /\ AtEnd(loc[p].it)
  /\ loc' = [loc EXCEPT ![p].map_it = 1]
  /\ pc' = [pc EXCEPT ![p] = "emit"]
  /\ UNCHANGED <<mesh, call, soln, names, _grid, _png_output, err, fs, io_log>>

\* One line of the data file: the key, a tab, then every value followed by a
\* tab (gnuplot_io.C:216-226).
Row(nm, key) == [x |-> key, values |-> nm[key]]

EmitRow(p) ==
  /\ pc[p] = "emit"
  /\ LET keys == MapKeysInOrder(DOMAIN loc[p].node_map)
     IN  /\ loc[p].map_it <= Len(keys)
         /\ fs' = Put(fs, DataFileName(fname),
                      << Row(loc[p].node_map, keys[loc[p].map_it]) >>)
  /\ loc' = [loc EXCEPT ![p].map_it = @ + 1]
  /\ io_log' = io_log \cup {<<p, DataFileName(fname), "write">>}
  /\ UNCHANGED <<mesh, call, soln, names, _grid, _png_output, pc, err>>

\* data.close() (gnuplot_io.C:229) and the return.
CloseData(p) ==
  /\ pc[p] = "emit"
  /\ loc[p].map_it > Cardinality(DOMAIN loc[p].node_map)
  /\ fs' = CloseFile(fs, DataFileName(fname))
  /\ pc' = [pc EXCEPT ![p] = "done"]
  /\ io_log' = io_log \cup {<<p, DataFileName(fname), "close">>}
  /\ UNCHANGED <<mesh, call, soln, names, _grid, _png_output, err, loc>>

Next ==
  \E p \in Procs :
    \/ Call(p)
    \/ CheckPreconditions(p)
    \/ OpenScript(p)
    \/ WriteHeader(p)
    \/ Pass1Step(p)
    \/ WriteRange(p)
    \/ WritePlot(p)
    \/ CloseScript(p)
    \/ OpenData(p)
    \/ Pass2Step(p)
    \/ BeginEmit(p)
    \/ EmitRow(p)
    \/ CloseData(p)

Spec == Init /\ [][Next]_vars

\* ---------------------------------------------------------------------
\* Properties.  The coordinating process is process 0.
\* ---------------------------------------------------------------------
ScriptLines == fs[fname].lines
DataRows    == fs[DataFileName(fname)].lines
Directives(d) == SelectSeq(ScriptLines, LAMBDA l : l.d = d)
Terminated(p) == pc[p] \in {"done", "failed", "crashed"}
Succeeded(p)  == pc[p] = "done" /\ err[p] = "none"

\* What the mesh is, independently of the export.
ElemNodeIds   == UNION { Range(mesh.elems[e].node) : e \in DOMAIN mesh.elems }
ActiveCoords  == { mesh.point[g] : g \in ElemNodeIds }
LeftEnds      == { e \in DOMAIN mesh.elems : mesh.elems[e].neighbor[1] = NULL }
RightEnds     == { e \in DOMAIN mesh.elems : mesh.elems[e].neighbor[2] = NULL }
Linear        == \A e \in DOMAIN mesh.elems : Len(mesh.elems[e].node) = 2
EndToEnd      == Linear /\ Cardinality(LeftEnds) = 1 /\ Cardinality(RightEnds) = 1
RightCoord(e) == mesh.point[mesh.elems[e].node[2]]
\* Process p has gone through the script's plot command / x-range / first loop.
PlotWritten(p)  == \/ pc[p] \in {"close_script", "open_data", "pass2", "emit", "done"}
                   \/ (pc[p] = "failed" /\ err[p] = "error")
RangeWritten(p) == PlotWritten(p) \/ pc[p] \in {"plot", "crashed"}
Pass1Done(p)    == RangeWritten(p) \/ (pc[p] = "pass1" /\ AtEnd(loc[p].it))

\* C1: on an end-to-end mesh of linear elements the x-range written by the
\* coordinating process is [leftmost node coordinate : rightmost node
\* coordinate], for every traversal order.
C1_XRangeIsDomain ==
  EndToEnd =>
    /\ \A i \in DOMAIN Directives("set xrange") :
         Directives("set xrange")[i].a = <<Min(ActiveCoords), Max(ActiveCoords)>>
    /\ RangeWritten(0) => Len(Directives("set xrange")) = 1

\* The x-range has been written for a mesh of several elements whose leftmost
\* element is visited last and whose rightmost element is visited first.
C1_Witness ==
  /\ EndToEnd /\ Len(mesh.elems) >= 3
  /\ mesh.order[Len(mesh.order)] \in LeftEnds
  /\ mesh.order[1] \in RightEnds
  /\ Len(Directives("set xrange")) = 1
  /\ Succeeded(0)

\* C2: after a successful write_nodal_data the first column of the data file
\* is the strictly ascending enumeration of the distinct coordinates of the
\* nodes of the active elements: each once, and no other coordinate.
C2_RowsAreDistinctCoordsAscending ==
  (call = "write_nodal_data" /\ Succeeded(0)) =>
    /\ \A i, j \in DOMAIN DataRows : i < j => DataRows[i].x < DataRows[j].x
    /\ { DataRows[i].x : i \in DOMAIN DataRows } = ActiveCoords
    /\ Len(DataRows) = Cardinality(ActiveCoords)

\* A successful export of a mesh whose nodes are shared between elements and
\* numbered against the coordinate order.
C2_Witness ==
  /\ call = "write_nodal_data" /\ Succeeded(0)
  /\ Len(mesh.elems) >= 2
  /\ Cardinality(ElemNodeIds) = Len(mesh.elems) + 1
  /\ \E g, h \in ElemNodeIds : g < h /\ mesh.point[g] > mesh.point[h]
  /\ mesh.order[1] # 1
  /\ Len(DataRows) = Len(mesh.elems) + 1

\* Every node coordinate of the mesh belongs to one global node id.
InjectiveCoords ==
  \A g, h \in DOMAIN mesh.point : mesh.point[g] = mesh.point[h] => g = h

\* C3: when every coordinate belongs to one node id, every data row carries
\* exactly names.length() values, and the c-th value of the row of node g is
\* solution[g * names.length() + c].
C3_RowValues ==
  InjectiveCoords =>
    \A r \in DOMAIN DataRows :
      /\ Len(DataRows[r].values) = Len(names)
      /\ \E g \in ElemNodeIds :
           /\ mesh.point[g] = DataRows[r].x
           /\ \A c \in 0..(Len(names) - 1) :
                DataRows[r].values[c + 1] = soln[g * Len(names) + c]

\* Rows with two values each have been written for a mesh of several nodes.
C3_Witness ==
  /\ InjectiveCoords /\ Succeeded(0)
  /\ Len(names) = 2
  /\ Len(DataRows) >= 3
  /\ \E g, h \in ElemNodeIds : g < h /\ mesh.point[g] > mesh.point[h]

\* C4: for a non-empty names the plot command holds exactly names.length()
\* traces of the data file; the i-th (from 0) uses column i + 2 and is
\* labelled names[i].
C4_PlotTraces ==
  names # <<>> =>
    /\ \A k \in DOMAIN Directives("plot") :
         LET tr == Directives("plot")[k].a
         IN  /\ Len(tr) = Len(names)
             /\ \A i \in 0..(Len(names) - 1) :
                  /\ tr[i + 1].file = fname \o <<"_data">>
                  /\ tr[i + 1].col = i + 2
                  /\ tr[i + 1].title = names[i + 1]
    /\ PlotWritten(0) => Len(Directives("plot")) = 1

\* A plot command with two differently named traces has been written.
C4_Witness ==
  /\ Len(names) = 2 /\ names[1] # names[2]
  /\ Len(Directives("plot")) = 1
  /\ PlotWritten(0)

\* C5: write(path) on a 1D mesh completes on the coordinating process and
\* leaves the script file, and no data file.
C5_WriteProducesScriptOnly ==
  (call = "write" /\ mesh.dim = 1 /\ Terminated(0)) =>
    /\ Succeeded(0)
    /\ fs[fname].state = "closed"
    /\ fs[DataFileName(fname)].state = "absent"

\* C6: if the mesh dimension is not 1, or the solution or the names handle is
\* absent, the coordinating process fails with a precondition violation and
\* no file is opened, created or modified; no I/O is even attempted.
C6_PreconditionsBeforeIO ==
  (pc[0] # "idle" /\ (mesh.dim # 1 \/ loc[0].names_null \/ loc[0].soln_null)) =>
    /\ pc[0] \in {"assert", "failed"}
    /\ pc[0] = "failed" => err[0] \in {"assert_dim", "assert_soln"}
    /\ \A f \in Files : fs[f] = [state |-> "absent", lines |-> <<>>]
    /\ io_log = {}

\* The export of a 1D mesh without solution and names has failed.
C6_Witness ==
  /\ mesh.dim = 1 /\ loc[0].names_null /\ loc[0].soln_null
  /\ pc[0] = "failed" /\ err[0] = "assert_soln"

\* C7: write_nodal_data with an empty names fails with the missing-data
\* error, and emits neither a script nor a data file.
C7_EmptyNamesFails ==
  (call = "write_nodal_data" /\ names = <<>> /\ mesh.dim = 1) =>
    /\ \A f \in Files : fs[f].state = "absent"
    /\ Terminated(0) => (pc[0] = "failed" /\ err[0] = "assert_soln")

\* C8: only process 0 opens or writes a file; every other process queries
\* the active-element count, does no file I/O and raises no error.
C8_OnlyCoordinatorWrites ==
  /\ \A op \in io_log : op[1] = 0
  /\ \A p \in Procs \ {0} :
       /\ pc[p] \in {"idle", "done"}
       /\ err[p] = "none"
       /\ pc[p] = "done" => loc[p].n_active_elem = Len(mesh.elems)

\* Another process has returned from a call on a mesh of dimension 2, and
\* from a call in which process 0 wrote both files.
C8_Witness ==
  /\ \E p \in Procs \ {0} : pc[p] = "done"
  /\ \/ mesh.dim # 1 /\ pc[0] = "failed"
     \/ Succeeded(0) /\ DataRows # <<>>

\* The script is closed and ends with its plot command.
ScriptComplete ==
  /\ fs[fname].state = "closed"
  /\ ScriptLines # <<>>
  /\ ScriptLines[Len(ScriptLines)].d = "plot"
  /\ Len(Directives("set xrange")) = 1

\* C9: the script file is opened, written and closed before the data file is
\* opened; a failed open of the script ends the call without the data file
\* being opened; a failed open of the data file ends the call with no row
\* written and the script left as written.
C9_ScriptBeforeData ==
  /\ (\E op \in io_log : op[2] = DataFileName(fname)) => ScriptComplete
  /\ err[0] = "file_error" =>
       /\ pc[0] = "failed"
       /\ fs[DataFileName(fname)].state = "absent"
       /\ \A op \in io_log : op[2] # DataFileName(fname)
  /\ err[0] = "error" =>
       /\ pc[0] = "failed"
       /\ fs[DataFileName(fname)] = [state |-> "absent", lines |-> <<>>]
       /\ \A op \in io_log : op[2] = DataFileName(fname) => op[3] = "open"
       /\ ScriptComplete

\* The data file could not be opened after the script had been written.
C9_Witness ==
  /\ err[0] = "error" /\ pc[0] = "failed"
  /\ ScriptComplete
  /\ <<0, DataFileName(fname), "open">> \in io_log

\* The position of the leftmost element in the traversal order.
LeftmostAt == CHOOSE j \in DOMAIN mesh.order : mesh.order[j] \in LeftEnds

\* C10: on an end-to-end mesh of k linear elements the tick list of pass 1
\* holds k + 1 entries: the right node of every element in traversal order,
\* and the domain minimum right before the entry of the leftmost element;
\* one separator stands between two entries and none after the last.
C10_TickList ==
  (EndToEnd /\ Pass1Done(0)) =>
    LET st == loc[0].xtics_stream
        k  == Len(mesh.elems)
        entry(n) == st[2 * n - 1]
    IN  /\ Len(st) = 2 * (k + 1) - 1
        /\ \A n \in 1..Len(st) : st[n].t = (IF n % 2 = 1 THEN "tick" ELSE "sep")
        /\ \A n \in 1..(k + 1) :
             entry(n).x = IF n < LeftmostAt THEN RightCoord(mesh.order[n])
                          ELSE IF n = LeftmostAt THEN Min(ActiveCoords)
                          ELSE RightCoord(mesh.order[n - 1])
        /\ \A d \in DOMAIN Directives("set x2tics") :
             Directives("set x2tics")[d].a = st

\* The tick list is complete and written for a mesh whose leftmost element is
\* visited last.
C10_Witness ==
  /\ EndToEnd /\ Len(mesh.elems) >= 2
  /\ LeftmostAt = Len(mesh.order)
  /\ Pass1Done(0)
  /\ Len(Directives("set x2tics")) = 1

====
